---- MODULE Spec2Model ----
(***************************************************************************)
(* Blue Carbon registry: the verification workflow of                      *)
(* VerificationDashboard.handleVerification with its collaborators         *)
(* (db.updateProject, blockchainService.mintNFT / logEvent), the project   *)
(* registration of ProjectForm.handleSubmit, and the sequestration         *)
(* calculator of utils/carbonCalculator.                                   *)
(*                                                                         *)
(* Every awaited collaborator call is one action per outcome: the promise  *)
(* resolves (with the values the collaborator returns) or rejects / returns*)
(* an error result; the synchronous code up to the next await, the catch   *)
(* and the finally block are part of the same action. The logger and the   *)
(* minter of the repository are mocks that always resolve; they stand for  *)
(* a network service, and the handlers' try/catch provides for their       *)
(* rejection, so both outcomes are modelled. supabase calls resolve with   *)
(* {data, error}; an error result is their failing outcome.                *)
(*                                                                         *)
(* The functions of utils/carbonCalculator are operators; a specification  *)
(* per use draws their parameters in its initial state and applies them:   *)
(* SpecCalc (forward mode and the round trip through the inverse),         *)
(* SpecCompare (forward mode called twice), SpecPolicy (the inverse called *)
(* with a target) and SpecDetect (detectAnomalies).                        *)
(*                                                                         *)
(* SpecForm is the registration form followed by the dashboard's render of *)
(* the stored row, SpecLive one signed-in dashboard whose collaborator     *)
(* calls all settle, and SpecUi the CarbonCalculator page.                 *)
(***************************************************************************)
EXTENDS Integers, Sequences, FiniteSets, TLC

\* ------------------------------------------------------------------ bounds
MaxProjects == 1   \* projects in the registry (and rows the form may create)
MaxRuns     == 2   \* handleVerification invocations, all sessions together
MaxArea     == 8   \* calculator inputs: how many of AreaSamples are used
MaxYears    == 20  \* calculator inputs: projection horizon, 0..MaxYears
MaxHistory  == 3   \* detector inputs: historical snapshots, 0..MaxHistory

\* ------------------------------------------------------------- value sets
Verifiers  == {"v1", "v2"}          \* two browser sessions, one verifier each
Owner      == "o1"                  \* the project owner's session
ProjectIds == 1..MaxProjects
NoValue    == "none"                \* null / undefined / absent key
NoProject  == 0                     \* selectedProject === null
Comments   == {"ok"}                \* what a verifier types as comments
TokenIds   == {"t1"}                \* the Math.random() token id of mintNFT
TxHashes   == {"0xa"}               \* generateMockTxHash() results
Timestamp  == "T"                   \* new Date().toISOString()
Actions    == {"approve", "reject"}

VARIABLES
  db_projects,           \* storage: the projects table, a row per created id
  \* --- VerificationDashboard, one instance per verifier session
  projects,              \* useState projects: loaded pending project ids
  loading,               \* useState loading
  loadsInFlight,         \* loadPendingProjects calls awaiting db.getProjects
  selectedProject,       \* useState selectedProject (id, or NoProject)
  actionLoading,         \* useState actionLoading
  verificationComments,  \* useState verificationComments
  pc,                    \* position of handleVerification: idle/mint/update/log
  run,                   \* locals of the running (or last) invocation
  loadRun,               \* outcome and notification of the last loadPendingProjects
  runs,                  \* handleVerification invocations started so far
  \* --- ProjectForm (owner session)
  formPc,                \* position of handleSubmit: idle/create/log/update
  formRun,               \* locals and notifications of handleSubmit
  formRuns,              \* handleSubmit invocations started so far
  \* --- utils/carbonCalculator: a call of a calculator function, and a
  \* second call that follows it
  calc                   \* [fn, params, result, fn2, params2, result2, ties]

dbVars   == <<db_projects>>
dashVars == <<projects, loading, loadsInFlight, selectedProject, actionLoading,
              verificationComments, pc, run, loadRun, runs>>
formVars == <<formPc, formRun, formRuns>>
vars     == <<dbVars, dashVars, formVars, calc>>

\* ------------------------------------------------------- storage (supabase)
\* projects.status DEFAULT 'pending', verification_details DEFAULT NULL,
\* blockchain_events DEFAULT ARRAY[]
NewRow(owner) ==
  [owner_id |-> owner, status |-> "pending",
   verification_details |-> NoValue, blockchain_events |-> <<>>]

\* The rows a query .eq('status', st) returns.
getProjects(st) ==
  {p \in DOMAIN db_projects : db_projects[p].status = st}

\* .update(updates).eq('id', id): the given columns of the row are overwritten,
\* whatever the row's current status is; the other columns are kept.
updateProject(id, updates) ==
  [db_projects EXCEPT ![id] =
     [f \in DOMAIN @ |-> IF f \in DOMAIN updates THEN updates[f] ELSE @[f]]]

\* ------------------------------------------------- handleVerification locals
\* projectId, action: the arguments; comments, updates, nftData, event: the
\* values the invocation works with (gone when it returns); calls, failed,
\* wrote, logged, toast: what the invocation has done so far.
NoRun ==
  [projectId |-> NoProject, action |-> NoValue, user |-> NoValue,
   comments |-> NoValue,
   updates |-> NoValue, nftData |-> NoValue, event |-> NoValue,
   calls |-> [mint |-> 0, update |-> 0, log |-> 0],
   failed |-> NoValue, wrote |-> FALSE, logged |-> 0,
   toast |-> NoValue]

NoLoadRun == [failed |-> FALSE, toast |-> NoValue]

\* const updates = { status, verification_details: {verifier_id, verified_at,
\* comments} }; nft_token_id is a key the approve branch adds later.
Updates(user, action, comments, now) ==
  [status |-> IF action = "approve" THEN "approved" ELSE "rejected",
   verification_details |->
     [verifier_id |-> user, verified_at |-> now, comments |-> comments,
      nft_token_id |-> NoValue]]

\* The event handed to blockchainService.logEvent.
VerificationEvent(r) ==
  [event_type |-> "verification", project_id |-> r.projectId,
   data |-> [action |-> r.action, verifier_id |-> r.user,
             comments |-> r.comments,
             nft_token_id |-> r.nftData.nft_token_id,
             nft_transaction_hash |-> r.nftData.nft_transaction_hash],
   user_id |-> r.user]

NoFormRun ==
  [project |-> NoProject, event |-> NoValue, transaction_hash |-> NoValue,
   failed |-> NoValue, toast |-> NoValue]

\* no calculator call has been made
NoCalc ==
  [fn |-> NoValue, params |-> <<>>, result |-> <<>>,
   fn2 |-> NoValue, params2 |-> <<>>, result2 |-> <<>>, ties |-> <<>>]

NoNft == [nft_token_id |-> NoValue, nft_transaction_hash |-> NoValue]

\* The registry holds MaxProjects registered projects awaiting verification
\* and both verifiers have just opened the dashboard.
Init ==
  /\ db_projects = [p \in ProjectIds |->
       [NewRow(Owner) EXCEPT !.blockchain_events =
          <<[event_type |-> "registration", transaction_hash |-> "0xa"]>>]]
  /\ projects = [s \in Verifiers |-> {}]
  /\ loading = [s \in Verifiers |-> TRUE]
  /\ loadsInFlight = [s \in Verifiers |-> 1]     \* useEffect(loadPendingProjects, [])
  /\ selectedProject = [s \in Verifiers |-> NoProject]
  /\ actionLoading = [s \in Verifiers |-> FALSE]
  /\ verificationComments = [s \in Verifiers |-> ""]
  /\ pc = [s \in Verifiers |-> "idle"]
  /\ run = [s \in Verifiers |-> NoRun]
  /\ loadRun = [s \in Verifiers |-> NoLoadRun]
  /\ runs = 0
  /\ formPc = "idle"
  /\ formRun = NoFormRun
  /\ formRuns = 0
  /\ calc = NoCalc

\* ------------------------------------------------------ VerificationDashboard
\* loadPendingProjects is called (not awaited) on mount and after a success.
\* db.getProjects resolved with rows: setProjects(data); finally setLoading(false)
LoadResolve(s) ==
  /\ loadsInFlight[s] > 0
  /\ loadsInFlight' = [loadsInFlight EXCEPT ![s] = @ - 1]
  /\ projects' = [projects EXCEPT ![s] = getProjects("pending")]
  /\ loading' = [loading EXCEPT ![s] = FALSE]
  /\ loadRun' = [loadRun EXCEPT ![s] = NoLoadRun]
  /\ UNCHANGED <<dbVars, selectedProject, actionLoading, verificationComments,
                 pc, run, runs, formVars, calc>>

\* db.getProjects returned {data: null, error} or threw: data is falsy, or the
\* catch logs to the console; no toast; finally setLoading(false)
LoadFail(s) ==
  /\ loadsInFlight[s] > 0
  /\ loadsInFlight' = [loadsInFlight EXCEPT ![s] = @ - 1]
  /\ loading' = [loading EXCEPT ![s] = FALSE]
  /\ loadRun' = [loadRun EXCEPT ![s] = [failed |-> TRUE, toast |-> NoValue]]
  /\ UNCHANGED <<dbVars, projects, selectedProject, actionLoading,
                 verificationComments, pc, run, runs, formVars, calc>>

\* onClick={() => setSelectedProject(project)} on a row of the loaded list
SelectProject(s, p) ==
  /\ ~loading[s]
  /\ p \in projects[s]
  /\ selectedProject[s] # p
  /\ selectedProject' = [selectedProject EXCEPT ![s] = p]
  /\ UNCHANGED <<dbVars, projects, loading, loadsInFlight, actionLoading,
                 verificationComments, pc, run, loadRun, runs,
                 formVars, calc>>

\* onChange of the comments textarea (rendered while a project is selected)
SetComments(s, c) ==
  /\ ~loading[s]
  /\ selectedProject[s] # NoProject
  /\ verificationComments[s] # c
  /\ verificationComments' = [verificationComments EXCEPT ![s] = c]
  /\ UNCHANGED <<dbVars, projects, loading, loadsInFlight, selectedProject,
                 actionLoading, pc, run, loadRun, runs, formVars,
                 calc>>

\* The invocation returns: its locals are gone, what it did remains.
Returned(r) ==
  [r EXCEPT !.projectId = NoProject, !.comments = NoValue,
            !.updates = NoValue, !.nftData = NoValue, !.event = NoValue]

\* (Mutation: there is no finally block; the flag stays set after a failure.)
Catch_StillBusy(s, call) ==
  /\ pc' = [pc EXCEPT ![s] = "idle"]
  /\ run' = [run EXCEPT
       ![s] = Returned([@ EXCEPT !.failed = call, !.toast = "error"])]
  /\ actionLoading' = actionLoading

\* catch: toast.error(...); finally: setActionLoading(false)
Catch(s, call) ==
  /\ pc' = [pc EXCEPT ![s] = "idle"]
  /\ run' = [run EXCEPT
       ![s] = Returned([@ EXCEPT !.failed = call, !.toast = "error"])]
  /\ actionLoading' = [actionLoading EXCEPT ![s] = FALSE]

\* if (action === 'approve' && selectedProject): the mint branch is taken.
\* (Mutation: the branch does not look at the action.)
NeedsMint_Always(action, selected) == selected # NoProject

NeedsMint(action, selected) == action = "approve" /\ selected # NoProject

\* updates.verification_details.nft_token_id = nft_token_id
\* (Mutation: the assignment is missing.)
WithToken_Dropped(updates, token) == updates

WithToken(updates, token) ==
  [updates EXCEPT !.verification_details.nft_token_id = token]

\* Click on Approve / Reject (disabled while actionLoading): the synchronous
\* part of handleVerification up to its first await.
handleVerification(s, action) ==
  /\ ~loading[s]
  /\ selectedProject[s] # NoProject
  /\ ~actionLoading[s]
  /\ pc[s] = "idle"
  /\ runs < MaxRuns
  /\ runs' = runs + 1
  /\ actionLoading' = [actionLoading EXCEPT ![s] = TRUE]
  /\ run' = [run EXCEPT ![s] =
       [NoRun EXCEPT
          !.projectId = selectedProject[s],
          !.action = action,
          !.user = s,
          !.comments = verificationComments[s],
          !.updates = Updates(s, action, verificationComments[s], Timestamp),
          !.nftData = NoNft,
          !.calls = IF NeedsMint(action, selectedProject[s])
                    THEN [mint |-> 1, update |-> 0, log |-> 0]
                    ELSE [mint |-> 0, update |-> 1, log |-> 0]]]
  /\ pc' = [pc EXCEPT ![s] =
       IF NeedsMint(action, selectedProject[s]) THEN "mint" ELSE "update"]
  /\ UNCHANGED <<db_projects, projects, loading, loadsInFlight,
                 selectedProject, verificationComments, loadRun, formVars,
                 calc>>

\* await blockchainService.mintNFT(selectedProject) resolved with
\* {nft_token_id, transaction_hash}; then db.updateProject is called.
MintResolve(s, token, hash) ==
  /\ pc[s] = "mint"
  /\ pc' = [pc EXCEPT ![s] = "update"]
  /\ run' = [run EXCEPT
       ![s].updates = WithToken(@, token),
       ![s].nftData = [nft_token_id |-> token, nft_transaction_hash |-> hash],
       ![s].calls.update = @ + 1]
  /\ UNCHANGED <<db_projects, projects, loading, loadsInFlight,
                 selectedProject, actionLoading, verificationComments, loadRun,
                 runs, formVars, calc>>

\* (Mutation: the rejection is swallowed and the handler goes on to
\* db.updateProject without a token.)
MintReject_Continues(s) ==
  /\ pc[s] = "mint"
  /\ pc' = [pc EXCEPT ![s] = "update"]
  /\ run' = [run EXCEPT ![s].failed = "mint", ![s].calls.update = @ + 1]
  /\ UNCHANGED <<db_projects, projects, loading, loadsInFlight,
                 selectedProject, actionLoading, verificationComments, loadRun,
                 runs, formVars, calc>>

\* await blockchainService.mintNFT(selectedProject) rejected: the catch block
MintReject(s) ==
  /\ pc[s] = "mint"
  /\ Catch(s, "mint")
  /\ UNCHANGED <<dbVars, projects, loading, loadsInFlight, selectedProject,
                 verificationComments, loadRun, runs, formVars, calc>>

\* await db.updateProject(projectId, updates) resolved without error: the row
\* is written; then blockchainService.logEvent is called.
UpdateResolve(s) ==
  /\ pc[s] = "update"
  /\ pc' = [pc EXCEPT ![s] = "log"]
  /\ db_projects' = updateProject(run[s].projectId, run[s].updates)
  /\ run' = [run EXCEPT ![s].wrote = TRUE, ![s].calls.log = @ + 1,
                        ![s].event = VerificationEvent(run[s])]
  /\ UNCHANGED <<projects, loading, loadsInFlight, selectedProject,
                 actionLoading, verificationComments, loadRun, runs, formVars, calc>>

\* (Mutation: the error result is not inspected and the handler goes on to
\* blockchainService.logEvent.)
UpdateError_Ignored(s) ==
  /\ pc[s] = "update"
  /\ pc' = [pc EXCEPT ![s] = "log"]
  /\ run' = [run EXCEPT ![s].failed = "update", ![s].calls.log = @ + 1,
                        ![s].event = VerificationEvent(run[s])]
  /\ UNCHANGED <<dbVars, projects, loading, loadsInFlight, selectedProject,
                 actionLoading, verificationComments, loadRun, runs, formVars,
                 calc>>

\* db.updateProject resolved with {error} (or rejected): if (error) throw error
UpdateError(s) ==
  /\ pc[s] = "update"
  /\ Catch(s, "update")
  /\ UNCHANGED <<dbVars, projects, loading, loadsInFlight, selectedProject,
                 verificationComments, loadRun, runs, formVars, calc>>

\* await blockchainService.logEvent(...) resolved: toast.success,
\* setSelectedProject(null), setVerificationComments(''),
\* loadPendingProjects(); finally setActionLoading(false)
LogResolve(s, hash) ==
  /\ pc[s] = "log"
  /\ pc' = [pc EXCEPT ![s] = "idle"]
  /\ run' = [run EXCEPT
       ![s] = Returned([@ EXCEPT !.logged = @ + 1, !.toast = "success"])]
  /\ selectedProject' = [selectedProject EXCEPT ![s] = NoProject]
  /\ verificationComments' = [verificationComments EXCEPT ![s] = ""]
  /\ loadsInFlight' = [loadsInFlight EXCEPT ![s] = @ + 1]
  /\ actionLoading' = [actionLoading EXCEPT ![s] = FALSE]
  /\ UNCHANGED <<db_projects, projects, loading, loadRun, runs, formVars,
                 calc>>

LogReject(s) ==
  /\ pc[s] = "log"
  /\ Catch(s, "log")
  /\ UNCHANGED <<dbVars, projects, loading, loadsInFlight, selectedProject,
                 verificationComments, loadRun, runs, formVars, calc>>

\* ------------------------------------------------------ config/constants.ts
\* Sequestration factors (tons CO2/hectare/year), in hundredths:
\* mangrove 10.15, seagrass 8.7, salt_marsh 6.8, kelp_forest 12.3
SEQUESTRATION_FACTORS ==
  [mangrove |-> 1015, seagrass |-> 870, salt_marsh |-> 680, kelp_forest |-> 1230]

EcosystemTypes == DOMAIN SEQUESTRATION_FACTORS

DEFAULT_BUFFERS == [uncertainty |-> 10, mortality |-> 15, verification |-> 5]

\* Impact equivalences per ton CO2; the two per-year ratios in hundredths
\* (0.45 and 0.12)
IMPACT_EQUIVALENCES ==
  [cars_removed_per_year |-> 45, homes_powered_per_year |-> 12,
   trees_planted |-> 16]

DefaultYears == 20     \* years = 20 in the parameter destructuring

\* ------------------------------------------------- utils/carbonCalculator.ts
\* Numbers are exact rationals. A value x is the pair <<q, r>> with
\* x = q + r / Denom and 0 <= r < Denom, so that products of several factors
\* stay within 32-bit integers. A JavaScript double differs from
\* the exact value by a relative error near 2^-53, which changes the result of
\* Math.round only when the exact value lies on a tie k + 1/2; there the
\* rounding is a choice (parameter up) between the two neighbours.
Denom == 1000000

\* (Mutation: the whole part is lost.)
FromInt_Fraction(x) == <<0, x % Denom>>

FromInt(x) == <<x \div Denom, x % Denom>>

\* v * m, for an integer m with |m| * Denom within the integers
Scale(v, m) == <<v[1] * m + (v[2] * m) \div Denom, (v[2] * m) % Denom>>

\* (Mutation: Math.floor in place of Math.round.)
MathRound_Floor(v, k, up) == v[1] \div k

\* Math.round(v / k): the nearest integer, a tie going up unless the
\* floating-point error takes it below the tie
MathRound(v, k, up) ==
  IF v[1] % k = k \div 2 /\ v[2] = 0 /\ ~up
  THEN (v[1] + k \div 2) \div k - 1
  ELSE (v[1] + k \div 2) \div k

\* (Mutation: Math.floor in place of Math.round.)
Round2_Floor(v, up) == v[1]

\* Math.round(x * 100) / 100 for x = v / 100, kept as an integer number of
\* hundredths
Round2(v, up) ==
  IF 2 * v[2] > Denom \/ (2 * v[2] = Denom /\ up) THEN v[1] + 1 ELSE v[1]

\* the Math.round calls of calculateCarbonSequestration, by the field they fill
ForwardRounded ==
  {"annual_absorption", "cumulative_absorption", "cars_removed",
   "homes_powered", "trees_planted"}

Years(params) ==
  IF "years" \in DOMAIN params THEN params.years ELSE DefaultYears

Buffers(params) ==
  IF "buffers" \in DOMAIN params THEN params.buffers ELSE DEFAULT_BUFFERS

\* (Mutation: the buffers are added to the absorption.)
TotalBufferPercentage_Negated(buffers) ==
  0 - (buffers.uncertainty + buffers.mortality + buffers.verification)

TotalBufferPercentage(buffers) ==
  buffers.uncertainty + buffers.mortality + buffers.verification

\* calculateCarbonSequestration(params). annual100 and cumulative100 are the
\* unrounded annual_absorption and cumulative_absorption times 100:
\*   annual_absorption = (area_m2 / 10000) * factor * (100 - buffers) / 100
\* The returned absorptions are integer hundredths (2-decimal values).
calculateCarbonSequestration(params, up) ==
  LET base_sequestration == SEQUESTRATION_FACTORS[params.ecosystem_type]
      total_buffer_percentage == TotalBufferPercentage(Buffers(params))
      annual100 ==
        Scale(FromInt(params.area_m2 * base_sequestration),
              100 - total_buffer_percentage)
      cumulative100 == Scale(annual100, Years(params))
  IN [annual_absorption |-> Round2(annual100, up["annual_absorption"]),
      cumulative_absorption |->
        Round2(cumulative100, up["cumulative_absorption"]),
      equivalences |->
        [cars_removed |->
           MathRound(Scale(annual100, IMPACT_EQUIVALENCES.cars_removed_per_year),
                     10000, up["cars_removed"]),
         homes_powered |->
           MathRound(Scale(annual100, IMPACT_EQUIVALENCES.homes_powered_per_year),
                     10000, up["homes_powered"]),
         trees_planted |->
           MathRound(Scale(cumulative100, IMPACT_EQUIVALENCES.trees_planted),
                     100, up["trees_planted"])]]

\* The result's number that the Math.round call f fills.
ForwardField(result, f) ==
  IF f \in {"annual_absorption", "cumulative_absorption"}
  THEN result[f] ELSE result.equivalences[f]

\* The Math.round calls of calculateCarbonSequestration(params) whose
\* argument is a tie: the calls where the floating-point error decides.
ForwardTies(params) ==
  {f \in ForwardRounded :
     ForwardField(calculateCarbonSequestration(
                    params, [g \in ForwardRounded |-> TRUE]), f)
       # ForwardField(calculateCarbonSequestration(
                        params, [g \in ForwardRounded |-> FALSE]), f)}

\* the rounding of every Math.round call, given the rounding of the ties
ForwardTieChoice(up) == [f \in ForwardRounded |-> f \in DOMAIN up /\ up[f]]

\* ---- numbers that may be non-finite. The results of calculateRequiredArea
\* contain divisions, so each of its numbers is a record: a finite integer
\* value v, or Infinity, -Infinity or NaN (where v is kept at 0).
Finite(v) == [kind |-> "finite", v |-> v]

NonFinite(kind) == [kind |-> kind, v |-> 0]

\* n / d for d = +0 or -0 (negZero): the IEEE 754 quotient
DivZero(n, negZero) ==
  IF n = 0 THEN NonFinite("NaN")
  ELSE IF (n > 0) = negZero THEN NonFinite("-Infinity")
  ELSE NonFinite("Infinity")

\* one more decimal digit of a long division by d: qr = <<q, r>> stands for
\* q + r / d with 0 <= r < d
Digit(qr, d) == <<qr[1] * 10 + (qr[2] * 10) \div d, (qr[2] * 10) % d>>

RECURSIVE Digits(_, _, _)
Digits(qr, d, digits) ==
  IF digits = 0 THEN qr ELSE Digits(Digit(qr, d), d, digits - 1)

\* (Mutation: Math.ceil in place of Math.round.)
RoundDiv_Ceil(n, digits, d, up) ==
  LET m == IF d < 0 THEN -n ELSE n
      e == IF d < 0 THEN -d ELSE d
      qr == Digits(<<m \div e, m % e>>, e, digits)
  IN Finite(IF qr[2] > 0 THEN qr[1] + 1 ELSE qr[1])

\* Math.round(n * 10^digits / d) for d # 0: the nearest integer, a tie going
\* up unless the floating-point error takes it below the tie
RoundDiv(n, digits, d, up) ==
  LET m == IF d < 0 THEN -n ELSE n
      e == IF d < 0 THEN -d ELSE d
      qr == Digits(<<m \div e, m % e>>, e, digits)
  IN Finite(IF 2 * qr[2] > e \/ (2 * qr[2] = e /\ up)
            THEN qr[1] + 1 ELSE qr[1])

\* the Math.round calls of calculateRequiredArea, by the field they fill
PolicyRounded ==
  {"annual_absorption", "cars_removed", "homes_powered", "trees_planted",
   "policy_area_needed"}

\* Math.round(n / d) of a quotient whose divisor d is a multiple of years,
\* years being a count (for years = 0 the divisor is +0)
PerYear(n, d, years, up) ==
  IF years = 0 THEN DivZero(n, FALSE) ELSE RoundDiv(n, 0, d, up)

\* (Mutation: trees_planted taken from the computed area.)
PolicyEquivalences_FromArea(params, required_m2, up) ==
  [cars_removed |->
     PerYear(params.target_co2_reduction
               * IMPACT_EQUIVALENCES.cars_removed_per_year,
             10000 * Years(params), Years(params), up["cars_removed"]),
   homes_powered |->
     PerYear(params.target_co2_reduction
               * IMPACT_EQUIVALENCES.homes_powered_per_year,
             10000 * Years(params), Years(params), up["homes_powered"]),
   trees_planted |-> required_m2]

\* the equivalences of calculateRequiredArea; the target is in hundredths
PolicyEquivalences(params, required_m2, up) ==
  [cars_removed |->
     PerYear(params.target_co2_reduction
               * IMPACT_EQUIVALENCES.cars_removed_per_year,
             10000 * Years(params), Years(params), up["cars_removed"]),
   homes_powered |->
     PerYear(params.target_co2_reduction
               * IMPACT_EQUIVALENCES.homes_powered_per_year,
             10000 * Years(params), Years(params), up["homes_powered"]),
   trees_planted |->
     RoundDiv(params.target_co2_reduction * IMPACT_EQUIVALENCES.trees_planted,
              0, 100, up["trees_planted"])]

\* calculateRequiredArea(params). target_co2_reduction is a 2-decimal number
\* of tons, given as integer hundredths; the returned absorptions are
\* hundredths too. With the factor in hundredths and the buffers in percent,
\*   required_m2 = target / (factor * buffer_factor * years) * 10000
\*               = target100 * 10^6 / (factor100 * (100 - buffers) * years)
\* effective_sequestration * years is +0 when the buffers add up to 100, and
\* for years = 0 it is a zero with the sign of effective_sequestration.
calculateRequiredArea(params, up) ==
  LET target100 == params.target_co2_reduction
      years == Years(params)
      base_sequestration == SEQUESTRATION_FACTORS[params.ecosystem_type]
      total_buffer_percentage ==
        Buffers(params).uncertainty + Buffers(params).mortality
          + Buffers(params).verification
      effective100 == base_sequestration * (100 - total_buffer_percentage)
      required_m2 ==
        IF effective100 * years = 0
        THEN DivZero(target100, effective100 < 0)
        ELSE RoundDiv(target100, 6, effective100 * years,
                      up["policy_area_needed"])
  IN [annual_absorption |->
        PerYear(target100, years, years, up["annual_absorption"]),
      cumulative_absorption |-> Finite(target100),
      equivalences |-> PolicyEquivalences(params, required_m2, up),
      policy_area_needed |-> required_m2]

\* The result's number that the Math.round call f fills.
PolicyField(result, f) ==
  IF f \in {"annual_absorption", "policy_area_needed"}
  THEN result[f] ELSE result.equivalences[f]

\* The Math.round calls of calculateRequiredArea(params) whose argument is a
\* tie: the calls where the floating-point error decides the result.
PolicyTies(params) ==
  {f \in PolicyRounded :
     PolicyField(calculateRequiredArea(params, [g \in PolicyRounded |-> TRUE]), f)
       # PolicyField(calculateRequiredArea(params,
                                          [g \in PolicyRounded |-> FALSE]), f)}

\* the rounding of every Math.round call, given the rounding of the ties
TieChoice(up) == [f \in PolicyRounded |-> f \in DOMAIN up /\ up[f]]

\* The Math.round calls whose argument is computed from target_co2_reduction
\* and years alone: equal parameters give the same floating-point value.
TargetOnly == PolicyRounded \ {"policy_area_needed"}

\* ---- inputs of the calculator specification
AreaSamples == <<1, 500, 1000, 2500, 10000, 12345, 82102, 100000, 250000>>
Areas == {0} \cup {AreaSamples[i] : i \in 1..MaxArea}
BufferValues == {0, 5, 10, 15, 45}
BufferSets ==
  [uncertainty : BufferValues, mortality : BufferValues,
   verification : BufferValues]

CalculationParams ==
  [area_m2 : Areas, ecosystem_type : EcosystemTypes]
    \cup [area_m2 : Areas, ecosystem_type : EcosystemTypes,
          years : 0..MaxYears, buffers : BufferSets]

ValidForward(params) ==
  /\ params.area_m2 > 0
  /\ Years(params) > 0
  /\ Buffers(params).uncertainty + Buffers(params).mortality
       + Buffers(params).verification < 100

\* A caller is about to call the calculator with some parameters.
InitCalc ==
  /\ db_projects = <<>>
  /\ projects = [s \in Verifiers |-> {}]
  /\ loading = [s \in Verifiers |-> TRUE]
  /\ loadsInFlight = [s \in Verifiers |-> 1]
  /\ selectedProject = [s \in Verifiers |-> NoProject]
  /\ actionLoading = [s \in Verifiers |-> FALSE]
  /\ verificationComments = [s \in Verifiers |-> ""]
  /\ pc = [s \in Verifiers |-> "idle"]
  /\ run = [s \in Verifiers |-> NoRun]
  /\ loadRun = [s \in Verifiers |-> NoLoadRun]
  /\ runs = 0
  /\ formPc = "idle"
  /\ formRun = NoFormRun
  /\ formRuns = 0
  /\ \E params \in CalculationParams :
       calc = [NoCalc EXCEPT !.params = params]

\* The call calculateCarbonSequestration(params) returns.
CalcForward ==
  /\ calc.fn = NoValue
  /\ \E up \in [ForwardTies(calc.params) -> BOOLEAN] :
       calc' = [calc EXCEPT
                  !.fn = "calculateCarbonSequestration",
                  !.result = calculateCarbonSequestration(
                               calc.params, ForwardTieChoice(up))]
  /\ UNCHANGED <<dbVars, dashVars, formVars>>

\* (Mutation: the annual absorption is fed back as the target.)
RoundTripParams_Annual(params, result) ==
  IF "years" \in DOMAIN params
  THEN [target_co2_reduction |-> result.annual_absorption,
        ecosystem_type |-> params.ecosystem_type,
        years |-> params.years, buffers |-> params.buffers]
  ELSE [target_co2_reduction |-> result.annual_absorption,
        ecosystem_type |-> params.ecosystem_type]

\* The parameters of the inverse call that is fed the result of a forward
\* call: its cumulative_absorption as the target, the rest as it was.
RoundTripParams(params, result) ==
  IF "years" \in DOMAIN params
  THEN [target_co2_reduction |-> result.cumulative_absorption,
        ecosystem_type |-> params.ecosystem_type,
        years |-> params.years, buffers |-> params.buffers]
  ELSE [target_co2_reduction |-> result.cumulative_absorption,
        ecosystem_type |-> params.ecosystem_type]

\* The caller passes the forward result on to calculateRequiredArea, which
\* returns.
CalcRoundTrip ==
  /\ calc.fn = "calculateCarbonSequestration"
  /\ calc.fn2 = NoValue
  /\ LET params2 == RoundTripParams(calc.params, calc.result)
     IN \E up \in [PolicyTies(params2) -> BOOLEAN] :
          calc' = [calc EXCEPT
                     !.fn2 = "calculateRequiredArea",
                     !.params2 = params2,
                     !.result2 = calculateRequiredArea(params2, TieChoice(up))]
  /\ UNCHANGED <<dbVars, dashVars, formVars>>

NextCalc == CalcForward \/ CalcRoundTrip

SpecCalc == InitCalc /\ [][NextCalc]_vars

\* The dashboard and the form are not in use.
OnlyCalculator ==
  /\ db_projects = <<>>
  /\ projects = [s \in Verifiers |-> {}]
  /\ loading = [s \in Verifiers |-> TRUE]
  /\ loadsInFlight = [s \in Verifiers |-> 1]
  /\ selectedProject = [s \in Verifiers |-> NoProject]
  /\ actionLoading = [s \in Verifiers |-> FALSE]
  /\ verificationComments = [s \in Verifiers |-> ""]
  /\ pc = [s \in Verifiers |-> "idle"]
  /\ run = [s \in Verifiers |-> NoRun]
  /\ loadRun = [s \in Verifiers |-> NoLoadRun]
  /\ runs = 0
  /\ formPc = "idle"
  /\ formRun = NoFormRun
  /\ formRuns = 0

\* ---- forward mode called twice, the second time with one parameter raised
CompareParams ==
  {params \in CalculationParams : Years(params) \in {1, DefaultYears}}

InitCompare ==
  /\ OnlyCalculator
  /\ \E params \in CompareParams : calc = [NoCalc EXCEPT !.params = params]

\* The second call returns: a pure function, it repeats the first result for
\* the same parameters.
SecondForward(params2) ==
  /\ calc.fn = "calculateCarbonSequestration"
  /\ calc.fn2 = NoValue
  /\ \E up \in [ForwardTies(params2) -> BOOLEAN] :
       calc' = [calc EXCEPT
                  !.fn2 = "calculateCarbonSequestration",
                  !.params2 = params2,
                  !.result2 =
                    IF params2 = calc.params THEN calc.result
                    ELSE calculateCarbonSequestration(
                           params2, ForwardTieChoice(up))]
  /\ UNCHANGED <<dbVars, dashVars, formVars>>

\* A second call with the same or a larger area.
CalcLargerArea ==
  \E area_m2 \in Areas :
    /\ area_m2 >= calc.params.area_m2
    /\ SecondForward([calc.params EXCEPT !.area_m2 = area_m2])

\* the buffer sets that raise one of the three buffers
Raised(buffers) ==
  {b \in BufferSets :
     \E f \in DOMAIN buffers :
       b[f] > buffers[f] /\ \A g \in DOMAIN buffers \ {f} : b[g] = buffers[g]}

\* A second call with one of the buffers raised.
CalcMoreBuffer ==
  \E buffers \in Raised(Buffers(calc.params)) :
    SecondForward([area_m2 |-> calc.params.area_m2,
                   ecosystem_type |-> calc.params.ecosystem_type,
                   years |-> Years(calc.params), buffers |-> buffers])

NextCompare == CalcForward \/ CalcLargerArea \/ CalcMoreBuffer

SpecCompare == InitCompare /\ [][NextCompare]_vars

\* ---- detectAnomalies(project, historical_data)
\* the three rules, in the order of their evaluation, with the flag each
\* pushes and the penalty it adds
DetectionRules == <<"growth", "theoretical_max", "min_area">>

RuleFlag ==
  [growth |-> "Unrealistic area expansion detected",
   theoretical_max |->
     "Carbon sequestration estimates exceed theoretical maximum",
   min_area |-> "Project area unusually small for ecosystem restoration"]

RulePenalty == [growth |-> 25, theoretical_max |-> 30, min_area |-> 10]

\* (Mutation: growth_rate >= 1.0.)
GrowthFires_AtLeast(historical_data) ==
  /\ Len(historical_data) >= 2
  /\ LET latest == historical_data[Len(historical_data)]
         previous == historical_data[Len(historical_data) - 1]
     IN IF previous.area_m2 = 0 THEN latest.area_m2 > 0
        ELSE latest.area_m2 - previous.area_m2 >= previous.area_m2

\* growth_rate > 1.0 for the last two snapshots; there is no previous
\* snapshot in a history of fewer than two. A previous area of 0 gives
\* Infinity for a positive latest area and NaN for 0.
GrowthFires(historical_data) ==
  /\ Len(historical_data) > 0
  /\ Len(historical_data) >= 2
  /\ LET latest == historical_data[Len(historical_data)]
         previous == historical_data[Len(historical_data) - 1]
     IN IF previous.area_m2 = 0 THEN latest.area_m2 > 0
        ELSE latest.area_m2 - previous.area_m2 > previous.area_m2

\* annual_co2_absorption > factor * 1.5 * (area_m2 / 10000); absorption and
\* factor in hundredths. An absent annual_co2_absorption is undefined and
\* compares false. Where both sides are equal as exact numbers the
\* floating-point products decide (above).
TheoreticalMaxFires(project, above) ==
  /\ "annual_co2_absorption" \in DOMAIN project.carbon_calculations
  /\ LET annual20000 ==
           project.carbon_calculations.annual_co2_absorption * 20000
         max20000 ==
           SEQUESTRATION_FACTORS[project.ecosystem_type] * 3 * project.area_m2
     IN annual20000 > max20000 \/ (annual20000 = max20000 /\ above)

\* (Mutation: area_m2 <= 1000.)
MinAreaFires_Inclusive(project) == project.area_m2 <= 1000

MinAreaFires(project) == project.area_m2 < 1000

\* (Mutation: else-if, a rule is skipped once a flag was pushed.)
Push_Exclusive(acc, fired, rule) ==
  IF fired /\ acc.flags = <<>>
  THEN [flags |-> Append(acc.flags, RuleFlag[rule]),
        credibility_impact |-> acc.credibility_impact + RulePenalty[rule]]
  ELSE acc

\* flags.push(...); credibility_impact += ... inside a rule's if
Push(acc, fired, rule) ==
  IF fired
  THEN [flags |-> Append(acc.flags, RuleFlag[rule]),
        credibility_impact |-> acc.credibility_impact + RulePenalty[rule]]
  ELSE acc

detectAnomalies(project, historical_data, above) ==
  LET start == [flags |-> <<>>, credibility_impact |-> 0]
      growth == Push(start, GrowthFires(historical_data), "growth")
      theoretical ==
        Push(growth, TheoreticalMaxFires(project, above), "theoretical_max")
      minimum == Push(theoretical, MinAreaFires(project), "min_area")
  IN [is_suspicious |-> Len(minimum.flags) > 0,
      flags |-> minimum.flags,
      credibility_impact |-> minimum.credibility_impact]

\* ---- inputs of the detector specification
DetectorAreas == {500, 999, 1000, 10000, 20000}
SnapshotAreas == {0, 1000, 2000, 2001, 2500}

\* carbon_calculations: the '{}' default of the column, the record that
\* ProjectForm stores (key annual_absorption), and records of the Project
\* type with an annual_co2_absorption; 13.05 is seagrass's maximum for 1 ha
\* and 30.45 is mangrove's maximum for 2 ha
CarbonCalculations ==
  {<<>>} \cup [annual_absorption : {7105}]
    \cup [annual_co2_absorption : {0, 1305, 1306, 3045, 3046, 100000}]

\* Whether the double theoretical_max * (area_m2 / 10000) lies below the
\* exact product. Of the drawn projects two can record an absorption equal
\* to the exact maximum: for seagrass and 10000 m2 the double is
\* 8.7 * 1.5 * 1 = 13.049999999999999, below 13.05; for mangrove and
\* 20000 m2 it is 10.15 * 1.5 * 2 = 30.450000000000003, above 30.45.
ProductBelowExact(project) ==
  project.ecosystem_type = "seagrass" /\ project.area_m2 = 10000

DetectorProjects ==
  [area_m2 : DetectorAreas, ecosystem_type : EcosystemTypes,
   carbon_calculations : CarbonCalculations]

Histories ==
  UNION {[1..n -> [area_m2 : SnapshotAreas]] : n \in 0..MaxHistory}

InitDetect ==
  /\ OnlyCalculator
  /\ \E project \in DetectorProjects, historical_data \in Histories :
       calc = [NoCalc EXCEPT
                 !.params = [project |-> project,
                             historical_data |-> historical_data]]

\* (Mutation: the latest snapshot is taken with historical_data.pop().)
AfterCall_Popped(params) ==
  [params EXCEPT
     !.historical_data =
       IF Len(@) = 0 THEN @ ELSE SubSeq(@, 1, Len(@) - 1)]

\* The arguments after a call: detectAnomalies assigns to its own flags and
\* credibility_impact only and reads the history by index.
AfterCall(params) == params

\* The call detectAnomalies(project, historical_data) returns.
Detect ==
  /\ calc.fn = NoValue
  /\ calc' = [calc EXCEPT
       !.fn = "detectAnomalies",
       !.params = AfterCall(@),
       !.result = detectAnomalies(calc.params.project,
                                  calc.params.historical_data,
                                  ProductBelowExact(calc.params.project))]
  /\ UNCHANGED <<dbVars, dashVars, formVars>>

\* A second call with the project and the history of the first returns.
DetectAgain ==
  /\ calc.fn = "detectAnomalies"
  /\ calc.fn2 = NoValue
  /\ calc' = [calc EXCEPT
       !.fn2 = "detectAnomalies",
       !.params2 = calc.params,
       !.params = AfterCall(@),
       !.result2 = detectAnomalies(calc.params.project,
                                   calc.params.historical_data,
                                   ProductBelowExact(calc.params.project))]
  /\ UNCHANGED <<dbVars, dashVars, formVars>>

NextDetect == Detect \/ DetectAgain

SpecDetect == InitDetect /\ [][NextDetect]_vars

\* ---- policy mode: calculateRequiredArea called with a target of its own
\* targets in hundredths of a ton: -1000, 0, 0.01, 0.5, 10, 123.45, 1000
Targets == {-100000, 0, 1, 50, 1000, 12345, 100000}

PolicyBufferSets ==
  [uncertainty : BufferValues, mortality : {15, 45}, verification : {5, 45}]

PolicyCalculationParams ==
  [target_co2_reduction : Targets, ecosystem_type : EcosystemTypes]
    \cup [target_co2_reduction : Targets, ecosystem_type : EcosystemTypes,
          years : 0..MaxYears, buffers : PolicyBufferSets]

ValidPolicy(params) ==
  /\ params.target_co2_reduction > 0
  /\ Years(params) > 0
  /\ Buffers(params).uncertainty + Buffers(params).mortality
       + Buffers(params).verification < 100

InitPolicy ==
  /\ OnlyCalculator
  /\ \E params \in PolicyCalculationParams :
       calc = [NoCalc EXCEPT !.params = params]

\* The call calculateRequiredArea(params) returns.
CalcPolicy ==
  /\ calc.fn = NoValue
  /\ \E up \in [PolicyTies(calc.params) -> BOOLEAN] :
       calc' = [calc EXCEPT
                  !.fn = "calculateRequiredArea",
                  !.result = calculateRequiredArea(calc.params, TieChoice(up)),
                  !.ties = up]
  /\ UNCHANGED <<dbVars, dashVars, formVars>>

\* A second call with the same target and years and another ecosystem type
\* or other buffers returns. The Math.round calls fed by target and years
\* alone get the floating-point values of the first call.
CalcPolicyOther ==
  /\ calc.fn = "calculateRequiredArea"
  /\ calc.fn2 = NoValue
  /\ \E ecosystem_type \in EcosystemTypes, buffers \in PolicyBufferSets :
       LET params2 ==
             [target_co2_reduction |-> calc.params.target_co2_reduction,
              ecosystem_type |-> ecosystem_type,
              years |-> Years(calc.params), buffers |-> buffers]
       IN /\ (ecosystem_type = calc.params.ecosystem_type)
               # (buffers = Buffers(calc.params))
          /\ \E up \in [PolicyTies(params2) -> BOOLEAN] :
               /\ \A f \in DOMAIN up \cap DOMAIN calc.ties \cap TargetOnly :
                    up[f] = calc.ties[f]
               /\ calc' = [calc EXCEPT
                             !.fn2 = "calculateRequiredArea",
                             !.params2 = params2,
                             !.result2 =
                               calculateRequiredArea(params2, TieChoice(up))]
  /\ UNCHANGED <<dbVars, dashVars, formVars>>

NextPolicy == CalcPolicy \/ CalcPolicyOther

SpecPolicy == InitPolicy /\ [][NextPolicy]_vars

\* ---------------------------------------------------------------- ProjectForm
\* The event handleSubmit hands to blockchainService.logEvent.
RegistrationEvent(id, user) ==
  [event_type |-> "registration", project_id |-> id, user_id |-> user]

\* Submit of the registration form: the synchronous part up to
\* await db.createProject(...)
\* The registration form as it opens. formData: the form's state (useState:
\* area_m2 0, ecosystem_type 'mangrove'); carbonCalcs: the result handleSubmit
\* computes from it.
OpenForm ==
  NoFormRun @@
  [formData |-> [area_m2 |-> 0, ecosystem_type |-> "mangrove"],
   carbonCalcs |-> NoValue]

\* The least area the form's input accepts (min="1000").
MinFormArea == 1000

\* the areas typed into the form
FormAreas == {0, 500, 1000, 10000, 25000}

\* onChange of the area input: area_m2 = Number(e.target.value). A change
\* made while a submission is in flight is not seen by that submission (it
\* works on the formData of its render) and is lost when the form is left,
\* so changes are followed between submissions only.
ChangeArea(area) ==
  /\ formPc = "idle"
  /\ formRun.formData.area_m2 # area
  /\ formRun' = [formRun EXCEPT !.formData.area_m2 = area]
  /\ UNCHANGED <<dbVars, dashVars, formPc, formRuns, calc>>

\* onChange of the ecosystem select
ChangeEcosystem(type) ==
  /\ formPc = "idle"
  /\ formRun.formData.ecosystem_type # type
  /\ formRun' = [formRun EXCEPT !.formData.ecosystem_type = type]
  /\ UNCHANGED <<dbVars, dashVars, formPc, formRuns, calc>>

\* the argument of calculateCarbonSequestration in handleSubmit
SubmitParams(formData) ==
  [area_m2 |-> formData.area_m2, ecosystem_type |-> formData.ecosystem_type,
   years |-> 20]

\* carbon_calculations: carbonCalcs, the CalculationResult as it is
Persisted(carbonCalcs) == carbonCalcs

\* The row db.createProject inserts: {...formData, owner_id, status:
\* 'pending', carbon_calculations: carbonCalcs, blockchain_events: []}
InsertedRow(formData, carbonCalcs) ==
  NewRow(Owner) @@
  [area_m2 |-> formData.area_m2, ecosystem_type |-> formData.ecosystem_type,
   carbon_calculations |-> Persisted(carbonCalcs)]

\* The area input is required with min="1000": the browser submits the form
\* only with an area of at least 1000.
\*   carbonCalcs = calculateCarbonSequestration({area_m2, ecosystem_type,
\*                                               years: 20})
handleSubmit ==
  /\ formPc = "idle"
  /\ formRuns < MaxProjects
  /\ formRun.formData.area_m2 >= MinFormArea
  /\ formRuns' = formRuns + 1
  /\ \E up \in [ForwardTies(SubmitParams(formRun.formData)) -> BOOLEAN] :
       formRun' = [OpenForm EXCEPT
         !.formData = formRun.formData,
         !.carbonCalcs = calculateCarbonSequestration(
                           SubmitParams(formRun.formData),
                           ForwardTieChoice(up))]
  /\ formPc' = "create"
  /\ UNCHANGED <<dbVars, dashVars, calc>>

\* catch: toast.error(...); finally setLoading(false)
FormCatch(call) ==
  /\ formRun' = [formRun EXCEPT !.failed = call, !.toast = "error"]
  /\ formPc' = "idle"

\* db.createProject resolved with the inserted row (status 'pending'); then
\* blockchainService.logEvent is called
CreateResolve ==
  /\ formPc = "create"
  /\ db_projects' = Append(db_projects,
                           InsertedRow(formRun.formData, formRun.carbonCalcs))
  /\ formRun' = [formRun EXCEPT
       !.project = Len(db_projects) + 1,
       !.event = RegistrationEvent(Len(db_projects) + 1, Owner)]
  /\ formPc' = "log"
  /\ UNCHANGED <<dashVars, formRuns, calc>>

\* db.createProject resolved with {error}: if (error) throw error
CreateError ==
  /\ formPc = "create"
  /\ FormCatch("create")
  /\ UNCHANGED <<dbVars, dashVars, formRuns, calc>>

\* logEvent('registration') resolved; then db.updateProject is called
FormLogResolve(hash) ==
  /\ formPc = "log"
  /\ formRun' = [formRun EXCEPT !.transaction_hash = hash]
  /\ formPc' = "update"
  /\ UNCHANGED <<dbVars, dashVars, formRuns, calc>>

FormLogReject ==
  /\ formPc = "log"
  /\ FormCatch("log")
  /\ UNCHANGED <<dbVars, dashVars, formRuns, calc>>

\* await db.updateProject(project.id, {blockchain_events: [...]}) resolved
\* without error; toast.success, navigate('/projects'): the form is left, and
\* opens with its initial formData the next time
FormUpdateResolve ==
  /\ formPc = "update"
  /\ db_projects' = updateProject(formRun.project,
       [blockchain_events |->
          <<[event_type |-> "registration",
             transaction_hash |-> formRun.transaction_hash]>>])
  /\ formRun' = [formRun EXCEPT !.toast = "success",
                                !.formData = OpenForm.formData]
  /\ formPc' = "idle"
  /\ UNCHANGED <<dashVars, formRuns, calc>>

\* the same call resolved with {error}: the result is not inspected, the
\* handler goes on to toast.success
FormUpdateError ==
  /\ formPc = "update"
  /\ formRun' = [formRun EXCEPT !.failed = "update", !.toast = "success",
                                !.formData = OpenForm.formData]
  /\ formPc' = "idle"
  /\ UNCHANGED <<dbVars, dashVars, formRuns, calc>>

\* The verification dashboard renders a pending project of the registry:
\*   const anomalies = detectAnomalies(project, [])
RenderProject(p) ==
  /\ db_projects[p].status = "pending"
  /\ calc' = [NoCalc EXCEPT
       !.fn = "detectAnomalies",
       !.params = [project |-> db_projects[p], historical_data |-> <<>>],
       !.result = detectAnomalies(db_projects[p], <<>>,
                                  ProductBelowExact(db_projects[p]))]
  /\ calc' # calc
  /\ UNCHANGED <<dbVars, dashVars, formVars>>

\* The registry is empty and the owner has opened the registration form.
InitForm ==
  /\ db_projects = <<>>
  /\ projects = [s \in Verifiers |-> {}]
  /\ loading = [s \in Verifiers |-> TRUE]
  /\ loadsInFlight = [s \in Verifiers |-> 1]
  /\ selectedProject = [s \in Verifiers |-> NoProject]
  /\ actionLoading = [s \in Verifiers |-> FALSE]
  /\ verificationComments = [s \in Verifiers |-> ""]
  /\ pc = [s \in Verifiers |-> "idle"]
  /\ run = [s \in Verifiers |-> NoRun]
  /\ loadRun = [s \in Verifiers |-> NoLoadRun]
  /\ runs = 0
  /\ formPc = "idle"
  /\ formRun = OpenForm
  /\ formRuns = 0
  /\ calc = NoCalc

NextForm ==
  \/ \E area \in FormAreas : ChangeArea(area)
  \/ \E type \in EcosystemTypes : ChangeEcosystem(type)
  \/ \E p \in DOMAIN db_projects : RenderProject(p)
  \/ handleSubmit
  \/ CreateResolve
  \/ CreateError
  \/ \E h \in TxHashes : FormLogResolve(h)
  \/ FormLogReject
  \/ FormUpdateResolve
  \/ FormUpdateError

SpecForm == InitForm /\ [][NextForm]_vars

\* ------------------------------------- components/Calculator/CarbonCalculator
\* On the calculator page the record calc also holds the component's state:
\* ui, the useState values; fn, params, result, the calculator call whose
\* result is in `results` (fn is NoValue while results is null); pc, the
\* position of handleProveIt; eventData, the local of the running
\* handleProveIt (empty when none runs).
UiYears == {1, 20, 50}

\* values of the three buffer sliders (min 0, max 30)
UiBuffers ==
  [uncertainty : {10, 30}, mortality : {15, 30}, verification : {5, 30}]

\* Areas typed into the area box (a number input; the empty box gives 0), and
\* targets typed into the target box, in tons.
UiAreas == {0, 100000, 1000000}
UiTargets == {0, 10000}
UiEcosystems == {"mangrove", "seagrass"}

\* useState initial values; results is null until the first effect has run
InitialUi ==
  [mode |-> "standard", loading |-> FALSE, area |-> 100000,
   areaUnit |-> "m2", ecosystemType |-> "mangrove", years |-> 20,
   targetReduction |-> 10000, buffers |-> DEFAULT_BUFFERS]

CalculatorPage ==
  NoCalc @@ [ui |-> InitialUi, pc |-> "mount", eventData |-> <<>>]

\* areaUnit === 'ft2' ? area * 0.092903 : area. The model follows ft2 areas
\* that are multiples of 1000000 ft2, which convert to whole m2.
AreaInM2(area, areaUnit) ==
  IF areaUnit = "ft2" THEN (area \div 1000000) * 92903 ELSE area

\* the unit can be switched while the area shown converts to whole m2
Convertible(area) == area % 1000000 = 0

\* (Mutation: areaInM2 >= 0.)
StandardGuard_Inclusive(areaInM2) == areaInM2 >= 0

\* if (areaInM2 > 0)
StandardGuard(areaInM2) == areaInM2 > 0

\* the arguments the effect hands to the calculator in each mode; the target
\* in hundredths of a ton, as calculateRequiredArea takes it here
StandardParams(ui) ==
  [area_m2 |-> AreaInM2(ui.area, ui.areaUnit),
   ecosystem_type |-> ui.ecosystemType, years |-> ui.years,
   buffers |-> ui.buffers]

PolicyParams(ui) ==
  [target_co2_reduction |-> ui.targetReduction * 100,
   ecosystem_type |-> ui.ecosystemType, years |-> ui.years,
   buffers |-> ui.buffers]

\* The effect that runs after a render in which one of area, areaUnit,
\* ecosystemType, years, buffers, mode, targetReduction has changed: the
\* records calc can be after it, for the component state c.ui. Where the
\* guard of the mode fails, setResults is not called.
useEffect(c) ==
  IF c.ui.mode = "standard"
  THEN IF StandardGuard(AreaInM2(c.ui.area, c.ui.areaUnit))
       THEN {[c EXCEPT
                !.fn = "calculateCarbonSequestration",
                !.params = StandardParams(c.ui),
                !.result = calculateCarbonSequestration(
                             StandardParams(c.ui), ForwardTieChoice(up))] :
             up \in [ForwardTies(StandardParams(c.ui)) -> BOOLEAN]}
       ELSE {c}
  ELSE IF c.ui.targetReduction > 0
       THEN {[c EXCEPT
                !.fn = "calculateRequiredArea",
                !.params = PolicyParams(c.ui),
                !.result = calculateRequiredArea(
                             PolicyParams(c.ui), TieChoice(up))] :
             up \in [PolicyTies(PolicyParams(c.ui)) -> BOOLEAN]}
       ELSE {c}

\* A state setter followed by the render and the effect. A change made while
\* handleProveIt runs does not reach the eventData it has built, so changes
\* are followed while no handleProveIt runs.
SetState(ui) ==
  /\ calc.pc = "idle"
  /\ calc' \in useEffect([calc EXCEPT !.ui = ui])
  /\ UNCHANGED <<dbVars, dashVars, formVars>>

\* the effect after the first render
Mount ==
  /\ calc.pc = "mount"
  /\ calc' \in useEffect([calc EXCEPT !.pc = "idle"])
  /\ UNCHANGED <<dbVars, dashVars, formVars>>

setMode(mode) ==
  /\ calc.ui.mode # mode
  /\ SetState([calc.ui EXCEPT !.mode = mode])

\* the area box and the unit select are rendered in standard mode
setArea(area) ==
  /\ calc.ui.mode = "standard"
  /\ calc.ui.area # area
  /\ calc.ui.areaUnit = "ft2" => Convertible(area)
  /\ SetState([calc.ui EXCEPT !.area = area])

setAreaUnit(areaUnit) ==
  /\ calc.ui.mode = "standard"
  /\ calc.ui.areaUnit # areaUnit
  /\ Convertible(calc.ui.area)
  /\ SetState([calc.ui EXCEPT !.areaUnit = areaUnit])

\* the target box is rendered in policy mode
setTargetReduction(target) ==
  /\ calc.ui.mode = "policy"
  /\ calc.ui.targetReduction # target
  /\ SetState([calc.ui EXCEPT !.targetReduction = target])

setEcosystemType(type) ==
  /\ calc.ui.ecosystemType # type
  /\ SetState([calc.ui EXCEPT !.ecosystemType = type])

setYears(years) ==
  /\ calc.ui.years # years
  /\ SetState([calc.ui EXCEPT !.years = years])

setBuffers(key, value) ==
  /\ calc.ui.buffers[key] # value
  /\ SetState([calc.ui EXCEPT !.buffers[key] = value])

\* inputs: mode === 'standard' ? {area, areaUnit, ecosystemType, years,
\* buffers} : {targetReduction, ecosystemType, years, buffers}
EventInputs(ui) ==
  IF ui.mode = "standard"
  THEN [area |-> ui.area, areaUnit |-> ui.areaUnit,
        ecosystemType |-> ui.ecosystemType, years |-> ui.years,
        buffers |-> ui.buffers]
  ELSE [targetReduction |-> ui.targetReduction,
        ecosystemType |-> ui.ecosystemType, years |-> ui.years,
        buffers |-> ui.buffers]

\* eventData of handleProveIt. computed_by is not in the payload: it names
\* the call that produced the results the payload carries.
EventData(c) ==
  [calculator_mode |-> c.ui.mode, inputs |-> EventInputs(c.ui),
   results |-> c.result,
   assumptions |->
     [sequestration_factor |-> SEQUESTRATION_FACTORS[c.ui.ecosystemType],
      total_buffer_percentage |-> TotalBufferPercentage(c.ui.buffers)],
   computed_by |-> [fn |-> c.fn, params |-> c.params]]

\* Click on the button (rendered for a signed-in user while results is not
\* null, disabled while loading): if (!user || !results) return;
\* setLoading(true); the eventData is built and handed to
\* blockchainService.logEvent.
handleProveIt ==
  /\ calc.pc = "idle"
  /\ calc.fn # NoValue
  /\ ~calc.ui.loading
  /\ calc' = [calc EXCEPT !.pc = "logEvent", !.ui.loading = TRUE,
                          !.eventData = <<EventData(calc)>>]
  /\ UNCHANGED <<dbVars, dashVars, formVars>>

\* logEvent resolved; db.logBlockchainEvent is called with the same eventData
ProveLogResolve ==
  /\ calc.pc = "logEvent"
  /\ calc' = [calc EXCEPT !.pc = "logBlockchainEvent"]
  /\ UNCHANGED <<dbVars, dashVars, formVars>>

\* catch: toast.error; finally setLoading(false)
ProveCatch ==
  /\ calc.pc \in {"logEvent", "logBlockchainEvent"}
  /\ calc' = [calc EXCEPT !.pc = "idle", !.ui.loading = FALSE,
                          !.eventData = <<>>]
  /\ UNCHANGED <<dbVars, dashVars, formVars>>

\* db.logBlockchainEvent resolved, with or without {error}: the result is not
\* inspected; toast.success; finally setLoading(false)
ProveDbResolve ==
  /\ calc.pc = "logBlockchainEvent"
  /\ calc' = [calc EXCEPT !.pc = "idle", !.ui.loading = FALSE,
                          !.eventData = <<>>]
  /\ UNCHANGED <<dbVars, dashVars, formVars>>

InitUi ==
  /\ OnlyCalculator
  /\ calc = CalculatorPage

NextUi ==
  \/ Mount
  \/ \E mode \in {"standard", "policy"} : setMode(mode)
  \/ \E area \in UiAreas : setArea(area)
  \/ \E areaUnit \in {"m2", "ft2"} : setAreaUnit(areaUnit)
  \/ \E target \in UiTargets : setTargetReduction(target)
  \/ \E type \in UiEcosystems : setEcosystemType(type)
  \/ \E years \in UiYears : setYears(years)
  \/ \E key \in DOMAIN DEFAULT_BUFFERS :
        \E value \in {b[key] : b \in UiBuffers} : setBuffers(key, value)
  \/ handleProveIt
  \/ ProveLogResolve
  \/ ProveCatch
  \/ ProveDbResolve

SpecUi == InitUi /\ [][NextUi]_vars

\* ------------------------------------------------------------- specification
Next ==
  \/ \E s \in Verifiers : LoadResolve(s)
  \/ \E s \in Verifiers : LoadFail(s)
  \/ \E s \in Verifiers, p \in ProjectIds : SelectProject(s, p)
  \/ \E s \in Verifiers, c \in Comments : SetComments(s, c)
  \/ \E s \in Verifiers, a \in Actions : handleVerification(s, a)
  \/ \E s \in Verifiers, t \in TokenIds, h \in TxHashes : MintResolve(s, t, h)
  \/ \E s \in Verifiers : MintReject(s)
  \/ \E s \in Verifiers : UpdateResolve(s)
  \/ \E s \in Verifiers : UpdateError(s)
  \/ \E s \in Verifiers, h \in TxHashes : LogResolve(s, h)
  \/ \E s \in Verifiers : LogReject(s)

Spec == Init /\ [][Next]_vars

\* ---- one dashboard whose collaborator calls all settle
\* The session with a signed-in verifier, and the one where useAuth() has no
\* user.
SignedIn == {"v1"}
SignedOut == Verifiers \ SignedIn

\* handleVerification(projectId, action) called where user is null:
\*   if (!user) return;
\* The call is counted in runs; nothing else is done.
handleVerification_NoUser(s, action) ==
  /\ s \in SignedOut
  /\ runs < MaxRuns
  /\ runs' = runs + 1
  /\ UNCHANGED <<dbVars, projects, loading, loadsInFlight, selectedProject,
                 actionLoading, verificationComments, pc, run, loadRun,
                 formVars, calc>>

NextLive ==
  \/ \E s \in SignedIn : LoadResolve(s)
  \/ \E s \in SignedIn : LoadFail(s)
  \/ \E s \in SignedIn, p \in ProjectIds : SelectProject(s, p)
  \/ \E s \in SignedIn, c \in Comments : SetComments(s, c)
  \/ \E s \in SignedIn, a \in Actions : handleVerification(s, a)
  \/ \E s \in SignedOut, a \in Actions : handleVerification_NoUser(s, a)
  \/ \E s \in SignedIn, t \in TokenIds, h \in TxHashes : MintResolve(s, t, h)
  \/ \E s \in SignedIn : MintReject(s)
  \/ \E s \in SignedIn : UpdateResolve(s)
  \/ \E s \in SignedIn : UpdateError(s)
  \/ \E s \in SignedIn, h \in TxHashes : LogResolve(s, h)
  \/ \E s \in SignedIn : LogReject(s)

\* Every awaited collaborator call settles: it resolves or it rejects. (Each
\* of these steps moves the invocation on, so it changes pc.)
CallsSettle ==
  \A s \in SignedIn :
    /\ WF_pc((\E t \in TokenIds, h \in TxHashes : MintResolve(s, t, h))
               \/ MintReject(s))
    /\ WF_pc(UpdateResolve(s) \/ UpdateError(s))
    /\ WF_pc((\E h \in TxHashes : LogResolve(s, h)) \/ LogReject(s))

SpecLive == Init /\ [][NextLive]_vars /\ CallsSettle

\* ------------------------------------------------------------------ claims
Abs(x) == IF x < 0 THEN -x ELSE x

HasValue(record, v) == \E f \in DOMAIN record : record[f] = v

Terminal == {"approved", "rejected"}

\* C1: the new status is persisted only after minting (when approving) and
\* the 'verification' log-event have succeeded: no state in which an
\* invocation has written the project row while its log-event has not
\* succeeded.
C1_PersistOnlyAfterLog ==
  \A s \in Verifiers : run[s].wrote => run[s].logged >= 1

\* C2: an invocation in which a collaborator call failed leaves the persisted
\* project as it found it: it has written nothing.
C2_FailureLeavesStatus ==
  \A s \in Verifiers :
    (pc[s] = "idle" /\ run[s].failed # NoValue) => ~run[s].wrote

\* C3: a project whose persisted status is approved or rejected keeps that
\* status in every step: a decision on a decided project is refused.
C3_TerminalStatusKept ==
  [][\A p \in DOMAIN db_projects :
       db_projects[p].status \in Terminal
         => db_projects'[p].status = db_projects[p].status]_vars

\* C4: the storage update serializes concurrent decisions: once one session's
\* decision on a project is persisted, no step replaces it by another
\* session's decision (the other session gets a conflict instead).
C4_FirstDecisionKept ==
  [][\A p \in DOMAIN db_projects :
       db_projects[p].status \in Terminal
         => db_projects'[p].verification_details.verifier_id
              = db_projects[p].verification_details.verifier_id]_vars

\* C5 (as stated): on approve, the verification_details handed to
\* db.updateProject hold both the token id and the transaction hash that
\* mintNFT returned.
C5_RecordHasTokenAndHash ==
  \A s \in Verifiers :
    (run[s].action = "approve" /\ pc[s] \in {"update", "log"})
      => /\ HasValue(run[s].updates.verification_details,
                     run[s].nftData.nft_token_id)
         /\ HasValue(run[s].updates.verification_details,
                     run[s].nftData.nft_transaction_hash)

\* C5 (amended): on approve, the verification_details handed to
\* db.updateProject hold the token id that mintNFT returned and not its
\* transaction hash; the hash travels, with the token id, in the data of the
\* 'verification' event handed to logEvent.
C5_RecordHasTokenEventHasHash ==
  \A s \in Verifiers :
    (run[s].action = "approve" /\ pc[s] \in {"update", "log"})
      => /\ run[s].nftData.nft_token_id \in TokenIds
         /\ run[s].nftData.nft_transaction_hash \in TxHashes
         /\ run[s].updates.status = "approved"
         /\ run[s].updates.verification_details.nft_token_id
              = run[s].nftData.nft_token_id
         /\ ~HasValue(run[s].updates.verification_details,
                      run[s].nftData.nft_transaction_hash)
         /\ pc[s] = "log"
              => /\ run[s].event.data.nft_token_id
                      = run[s].nftData.nft_token_id
                 /\ run[s].event.data.nft_transaction_hash
                      = run[s].nftData.nft_transaction_hash

\* C5 witness: an approval whose record was persisted and whose event was
\* handed to the logger.
C5_Witness ==
  \E s \in Verifiers :
    /\ run[s].action = "approve" /\ pc[s] = "log" /\ run[s].wrote
    /\ db_projects[run[s].projectId].verification_details.nft_token_id
         = run[s].nftData.nft_token_id

\* The decision record of a rejection by verifier s with the given comments.
RejectUpdates(s, comments) ==
  [status |-> "rejected",
   verification_details |->
     [verifier_id |-> s, verified_at |-> Timestamp, comments |-> comments,
      nft_token_id |-> NoValue]]

\* C6: on reject mintNFT is never called, and the record handed to
\* db.updateProject (and written to the row) is status 'rejected' with only
\* the verifier id, the timestamp and the comments: no token id, no mint
\* output.
C6_RejectNeverMints ==
  /\ [](\A s \in Verifiers :
          run[s].action = "reject"
            => /\ run[s].calls.mint = 0
               /\ pc[s] # "mint"
               /\ pc[s] \in {"update", "log"}
                    => /\ run[s].nftData = NoNft
                       /\ run[s].updates = RejectUpdates(s, run[s].comments))
  /\ [][\A s \in Verifiers :
          (run[s].action = "reject" /\ ~run[s].wrote /\ run'[s].wrote)
            => /\ db_projects'[run[s].projectId].status = "rejected"
               /\ db_projects'[run[s].projectId].verification_details
                    = RejectUpdates(s, run[s].comments).verification_details]_vars

\* C6 witness: a rejection with comments has been persisted.
C6_Witness ==
  \E s \in Verifiers :
    /\ run[s].action = "reject" /\ pc[s] = "log" /\ run[s].wrote
    /\ run[s].comments = "ok"
    /\ db_projects[run[s].projectId].status = "rejected"

C8_NoRetry ==
  \A s \in Verifiers :
    /\ run[s].calls.mint <= 1
    /\ run[s].calls.update <= 1
    /\ run[s].calls.log <= 1
    /\ run[s].failed = "mint"
         => run[s].calls = [mint |-> 1, update |-> 0, log |-> 0]
    /\ run[s].failed = "update" => run[s].calls.log = 0
    /\ run[s].failed # NoValue
         => /\ pc[s] = "idle"
            /\ run[s].toast = "error"
            /\ run[s].logged = 0

\* C8 witness: an approval whose db.updateProject failed after a successful
\* mint.
C8_Witness ==
  \E s \in Verifiers :
    /\ run[s].failed = "update"
    /\ run[s].calls = [mint |-> 1, update |-> 1, log |-> 0]

\* C9: no collaborator failure is swallowed: a failed loadPendingProjects, a
\* failed handleVerification and a failed handleSubmit each end with an error
\* notification (and without a success notification).
C9_NoSilentFailure ==
  /\ \A s \in Verifiers :
       /\ loadRun[s].failed => loadRun[s].toast = "error"
       /\ run[s].failed # NoValue => run[s].toast = "error"
  /\ formRun.failed # NoValue => formRun.toast = "error"

\* C10 (as stated): for valid forward-mode inputs the returned values satisfy
\* |cumulative_absorption - annual_absorption * years| <= 0.01
\* (absorptions are integer hundredths).
C10_CumulativeWithinCent ==
  (calc.fn = "calculateCarbonSequestration" /\ ValidForward(calc.params))
    => Abs(calc.result.cumulative_absorption
             - calc.result.annual_absorption * Years(calc.params)) <= 1

\* C10 (amended): for valid forward-mode inputs the returned values satisfy
\* |cumulative_absorption - annual_absorption * years| <= 0.005 * years + 0.005:
\* both values are rounded from the unrounded annual absorption, so the
\* rounding error of the annual value is multiplied by the horizon.
C10_CumulativeWithinRounding ==
  (calc.fn = "calculateCarbonSequestration" /\ ValidForward(calc.params))
    => 2 * Abs(calc.result.cumulative_absorption
                 - calc.result.annual_absorption * Years(calc.params))
         <= Years(calc.params) + 1

\* C10 witness: a valid forward-mode call whose returned values differ by
\* more than 0.01.
C10_Witness ==
  /\ calc.fn = "calculateCarbonSequestration"
  /\ ValidForward(calc.params)
  /\ Abs(calc.result.cumulative_absorption
           - calc.result.annual_absorption * Years(calc.params)) > 1

\* C11 (as stated): for valid forward-mode inputs, feeding the forward
\* cumulative_absorption to calculateRequiredArea as the target (same
\* ecosystem, years and buffers) returns a policy_area_needed within 1 m2 of
\* the original area_m2.
C11_RoundTripWithin1 ==
  (calc.fn2 = "calculateRequiredArea" /\ ValidForward(calc.params))
    => /\ calc.result2.policy_area_needed.kind = "finite"
       /\ Abs(calc.result2.policy_area_needed.v - calc.params.area_m2) <= 1

\* the effective sequestration rate times the horizon, in 1/10000 ton per
\* hectare: factor (hundredths) * (100 - buffers) * years
RateYears(params) ==
  SEQUESTRATION_FACTORS[params.ecosystem_type]
    * (100 - (Buffers(params).uncertainty + Buffers(params).mortality
                + Buffers(params).verification))
    * Years(params)

\* C11 (amended): for valid forward-mode inputs the round trip returns a
\* finite policy_area_needed with
\*   |policy_area_needed - area_m2| <= 0.5 + 50 / (effective rate * years),
\* the effective rate being factor * (100 - buffers) / 100 tons per hectare
\* and year: the target is the cumulative absorption rounded to 0.01 ton, an
\* error of up to 0.005 ton, which the inverse turns into area, and the area
\* is rounded to a whole m2. With R = RateYears the bound is
\* (R + 10^6) / (2 * R), and the difference is an integer.
C11_RoundTripWithinRounding ==
  (calc.fn2 = "calculateRequiredArea" /\ ValidForward(calc.params))
    => /\ calc.result2.policy_area_needed.kind = "finite"
       /\ Abs(calc.result2.policy_area_needed.v - calc.params.area_m2)
            <= (RateYears(calc.params) + 1000000)
                 \div (2 * RateYears(calc.params))

\* C11 witness: a round trip of valid inputs that ends more than 1 m2 away
\* from the original area.
C11_Witness ==
  /\ calc.fn2 = "calculateRequiredArea"
  /\ ValidForward(calc.params)
  /\ calc.result2.policy_area_needed.kind = "finite"
  /\ Abs(calc.result2.policy_area_needed.v - calc.params.area_m2) > 1

\* x is a nearest integer to v / k, for the exact number v = <<q, r>> and an
\* even k: |x * k - v| <= k / 2
NearestTo(x, v, k) ==
  /\ x * k - v[1] <= k \div 2
  /\ x * k - v[1] >= (IF v[2] > 0 THEN 1 ELSE 0) - k \div 2

\* x is a nearest integer to the exact number v = <<q, r>>
Nearest(x, v) ==
  \/ x = v[1] /\ 2 * v[2] <= Denom
  \/ x = v[1] + 1 /\ 2 * v[2] >= Denom

\* the net annual absorption of the reference formula, times 100:
\* (area_m2 / 10000) * factor * (100 - buffer sum) / 100
NetAnnual100(params) ==
  Scale(FromInt(params.area_m2 * SEQUESTRATION_FACTORS[params.ecosystem_type]),
        100 - (Buffers(params).uncertainty + Buffers(params).mortality
                 + Buffers(params).verification))

ReferenceScenario ==
  [annual_absorption |-> 7105, cumulative_absorption |-> 142100,
   equivalences |->
     [cars_removed |-> 32, homes_powered |-> 9, trees_planted |-> 22736]]

\* C12: every result of calculateCarbonSequestration is the reference
\* formula's: annual_absorption is the net annual absorption rounded to two
\* decimals, cumulative_absorption is net annual * years rounded to two
\* decimals, cars_removed and homes_powered are net annual * 0.45 and * 0.12
\* rounded to an integer, trees_planted is net annual * years * 16 rounded to
\* an integer; and mangrove, 100000 m2, 20 years, default buffers gives
\* 71.05, 1421.0, 32, 9 and 22736.
C12_ForwardReferenceFormula ==
  calc.fn = "calculateCarbonSequestration"
    => LET net == NetAnnual100(calc.params)
           cumulative == Scale(net, Years(calc.params))
           result == calc.result
       IN /\ Nearest(result.annual_absorption, net)
          /\ Nearest(result.cumulative_absorption, cumulative)
          /\ NearestTo(result.equivalences.cars_removed, Scale(net, 45), 10000)
          /\ NearestTo(result.equivalences.homes_powered, Scale(net, 12), 10000)
          /\ NearestTo(result.equivalences.trees_planted,
                       Scale(cumulative, 16), 100)
          /\ (/\ calc.params.area_m2 = 100000
              /\ calc.params.ecosystem_type = "mangrove"
              /\ Years(calc.params) = 20
              /\ Buffers(calc.params) = DEFAULT_BUFFERS)
               => result = ReferenceScenario

\* C12 witness: the forward call of the reference scenario has returned.
C12_Witness ==
  /\ calc.fn = "calculateCarbonSequestration"
  /\ calc.params = [area_m2 |-> 100000, ecosystem_type |-> "mangrove"]
  /\ calc.result = ReferenceScenario

\* C13: for target > 0, years > 0 and buffer sum < 100 the returned
\* policy_area_needed is the integer nearest to
\*   target / (factor * ((100 - buffer sum) / 100) * years) * 10000,
\* that is, the exact cumulative absorption of that area differs from the
\* target by at most what half a m2 absorbs:
\*   |area * rate * years / 10000 - target| <= rate * years / 20000;
\* and seagrass, 1000 tons, 20 years, default buffers gives 82102 m2.
C13_PolicyReferenceFormula ==
  (calc.fn = "calculateRequiredArea" /\ ValidPolicy(calc.params))
    => LET area == calc.result.policy_area_needed
           params == calc.params
           absorbed ==
             Scale(Scale(Scale(FromInt(area.v),
                               SEQUESTRATION_FACTORS[params.ecosystem_type]),
                         100 - (Buffers(params).uncertainty
                                  + Buffers(params).mortality
                                  + Buffers(params).verification)),
                   Years(params))
           whole == absorbed[1] - params.target_co2_reduction
       IN /\ area.kind = "finite"
          /\ area.v >= 0
          /\ Abs(whole) <= 2
          /\ 2 * Abs(whole * Denom + absorbed[2]) <= RateYears(params)
          /\ (/\ params.target_co2_reduction = 100000
              /\ params.ecosystem_type = "seagrass"
              /\ Years(params) = 20
              /\ Buffers(params) = DEFAULT_BUFFERS)
               => area.v = 82102

\* C13 witness: the policy call of the reference scenario has returned.
C13_Witness ==
  /\ calc.fn = "calculateRequiredArea"
  /\ calc.params = [target_co2_reduction |-> 100000,
                    ecosystem_type |-> "seagrass"]
  /\ calc.result.policy_area_needed = Finite(82102)

\* x is a nearest integer to n / d, for d > 0
NearestQuotient(x, n, d) == 2 * Abs(x.v * d - n) <= d

\* C14: the equivalences of calculateRequiredArea are those of the target and
\* the horizon, cars_removed = round(target * 0.45 / years), homes_powered =
\* round(target * 0.12 / years), trees_planted = round(target * 16); and a
\* second call with the same target and years and another ecosystem type or
\* other buffers returns the same equivalences, annual_absorption and
\* cumulative_absorption.
C14_EquivalencesFromTargetOnly ==
  /\ (calc.fn = "calculateRequiredArea" /\ Years(calc.params) > 0)
       => LET target100 == calc.params.target_co2_reduction
              years == Years(calc.params)
              equivalences == calc.result.equivalences
          IN /\ \A f \in DOMAIN equivalences : equivalences[f].kind = "finite"
             /\ NearestQuotient(equivalences.cars_removed, target100 * 45,
                                10000 * years)
             /\ NearestQuotient(equivalences.homes_powered, target100 * 12,
                                10000 * years)
             /\ NearestQuotient(equivalences.trees_planted, target100 * 16,
                                100)
  /\ (calc.fn = "calculateRequiredArea" /\ calc.fn2 = "calculateRequiredArea")
       => /\ calc.result2.equivalences = calc.result.equivalences
          /\ calc.result2.annual_absorption = calc.result.annual_absorption
          /\ calc.result2.cumulative_absorption
               = calc.result.cumulative_absorption

\* C14 witness: two policy calls with the same target and years have returned
\* different areas for different ecosystem types, with non-zero equivalences.
C14_Witness ==
  /\ calc.fn = "calculateRequiredArea"
  /\ calc.fn2 = "calculateRequiredArea"
  /\ ValidPolicy(calc.params)
  /\ calc.params2.ecosystem_type # calc.params.ecosystem_type
  /\ calc.result2.policy_area_needed # calc.result.policy_area_needed
  /\ calc.result.equivalences.cars_removed.v > 0
  /\ calc.result2.equivalences = calc.result.equivalences

\* A call that fails with InvalidInput would return no result but the error.
InvalidInput(result) ==
  "error" \in DOMAIN result /\ result.error = "InvalidInput"

\* C19: calculateRequiredArea called with target <= 0, or with
\* effective rate * years = 0, fails with InvalidInput; and no call returns an
\* infinite, NaN or negative policy_area_needed.
C19_PolicyRejectsInvalidInput ==
  calc.fn = "calculateRequiredArea"
    => /\ (calc.params.target_co2_reduction <= 0 \/ RateYears(calc.params) = 0)
            => InvalidInput(calc.result)
       /\ "policy_area_needed" \in DOMAIN calc.result
            => /\ calc.result.policy_area_needed.kind = "finite"
               /\ calc.result.policy_area_needed.v >= 0

\* C17: calculateCarbonSequestration called with area_m2 <= 0 or years <= 0
\* fails with InvalidInput and returns no result.
C17_ForwardRejectsAreaAndYears ==
  (/\ calc.fn = "calculateCarbonSequestration"
   /\ (calc.params.area_m2 <= 0 \/ Years(calc.params) <= 0))
    => /\ InvalidInput(calc.result)
       /\ "annual_absorption" \notin DOMAIN calc.result

\* C18: calculateCarbonSequestration called with buffers that add up to 100
\* or more fails with InvalidInput; and no call returns a negative
\* annual_absorption, cumulative_absorption or equivalence.
C18_ForwardRejectsBuffers ==
  calc.fn = "calculateCarbonSequestration"
    => /\ TotalBufferPercentage(Buffers(calc.params)) >= 100
            => InvalidInput(calc.result)
       /\ "annual_absorption" \in DOMAIN calc.result
            => /\ calc.result.annual_absorption >= 0
               /\ calc.result.cumulative_absorption >= 0
               /\ \A f \in DOMAIN calc.result.equivalences :
                    calc.result.equivalences[f] >= 0

\* the two calls differ in the area only, the second area not the smaller
SecondAreaLarger ==
  /\ calc.fn2 = "calculateCarbonSequestration"
  /\ calc.params2.area_m2 >= calc.params.area_m2
  /\ calc.params2.ecosystem_type = calc.params.ecosystem_type
  /\ Years(calc.params2) = Years(calc.params)
  /\ Buffers(calc.params2) = Buffers(calc.params)

\* C15: for the same ecosystem type, years and buffers with sum < 100, and
\* 0 < area_a <= area_b, the annual_absorption returned for area_a is at most
\* the one returned for area_b.
C15_AreaMonotone ==
  (/\ SecondAreaLarger
   /\ calc.params.area_m2 > 0
   /\ TotalBufferPercentage(Buffers(calc.params)) < 100)
    => calc.result.annual_absorption <= calc.result2.annual_absorption

\* C15 witness: a larger area has returned a larger annual_absorption.
C15_Witness ==
  /\ SecondAreaLarger
  /\ calc.params.area_m2 > 0
  /\ TotalBufferPercentage(Buffers(calc.params)) < 100
  /\ calc.params2.area_m2 > calc.params.area_m2
  /\ calc.result.annual_absorption < calc.result2.annual_absorption

\* the two calls differ in one buffer only, which the second call raises
SecondBufferRaised ==
  /\ calc.fn2 = "calculateCarbonSequestration"
  /\ calc.params2.area_m2 = calc.params.area_m2
  /\ calc.params2.ecosystem_type = calc.params.ecosystem_type
  /\ Years(calc.params2) = Years(calc.params)
  /\ Buffers(calc.params2) \in Raised(Buffers(calc.params))

\* C16: for the same area_m2 > 0, ecosystem type and years, raising one of
\* uncertainty, mortality and verification and keeping the other two never
\* raises the returned annual_absorption.
C16_BufferMonotone ==
  (SecondBufferRaised /\ calc.params.area_m2 > 0)
    => calc.result2.annual_absorption <= calc.result.annual_absorption

\* C16 witness: a raised buffer has returned a smaller annual_absorption.
C16_Witness ==
  /\ SecondBufferRaised
  /\ calc.params.area_m2 > 0
  /\ calc.result2.annual_absorption < calc.result.annual_absorption

\* the rules whose flag is in the returned flags
Fired(result) ==
  {rule \in DOMAIN RuleFlag :
     \E i \in DOMAIN result.flags : result.flags[i] = RuleFlag[rule]}

\* the flag of a rule if it is one of fired
FlagIf(rule, fired) == IF rule \in fired THEN <<RuleFlag[rule]>> ELSE <<>>

\* C20: the three rules of detectAnomalies fire independently of each other
\* (growth for the last two snapshots, theoretical maximum for the project's
\* absorption, minimum area for its area); flags holds the fired rules'
\* messages in the order growth, theoretical maximum, minimum area;
\* credibility_impact is 25, 30 and 10 added up over the fired rules; and
\* is_suspicious says that a rule fired, which is credibility_impact > 0.
C20_RulesIndependentAndOrdered ==
  calc.fn = "detectAnomalies"
    => LET result == calc.result
           project == calc.params.project
           fired == Fired(result)
       IN /\ ("growth" \in fired) = GrowthFires(calc.params.historical_data)
          /\ TheoreticalMaxFires(project, FALSE) => "theoretical_max" \in fired
          /\ "theoretical_max" \in fired => TheoreticalMaxFires(project, TRUE)
          /\ ("min_area" \in fired) = (project.area_m2 < 1000)
          /\ result.flags
               = FlagIf("growth", fired) \o FlagIf("theoretical_max", fired)
                   \o FlagIf("min_area", fired)
          /\ result.credibility_impact
               = (IF "growth" \in fired THEN 25 ELSE 0)
                   + (IF "theoretical_max" \in fired THEN 30 ELSE 0)
                   + (IF "min_area" \in fired THEN 10 ELSE 0)
          /\ result.is_suspicious = (fired # {})
          /\ result.is_suspicious = (result.credibility_impact > 0)

\* C20 witness: all three rules have fired in one call.
C20_Witness ==
  /\ calc.fn = "detectAnomalies"
  /\ Len(calc.result.flags) = 3
  /\ calc.result.credibility_impact = 65
  /\ calc.result.is_suspicious

\* C21: the growth rule looks at the last two snapshots only and needs two:
\* it fires exactly when (latest - previous) / previous > 1.0, which for
\* previous > 0 is latest > 2 * previous (and for previous = 0 is
\* latest > 0, the quotient being Infinity); it never fires for a history of
\* fewer than two snapshots; and the history 1000 -> 2500 with no other rule
\* firing gives that one flag and credibility_impact 25.
C21_GrowthRule ==
  calc.fn = "detectAnomalies"
    => LET h == calc.params.historical_data
           n == Len(h)
           fired == Fired(calc.result)
       IN /\ n < 2 => "growth" \notin fired
          /\ n >= 2
               => ("growth" \in fired)
                    = (IF h[n - 1].area_m2 > 0
                       THEN h[n].area_m2 > 2 * h[n - 1].area_m2
                       ELSE h[n].area_m2 > 0)
          /\ (/\ h = <<[area_m2 |-> 1000], [area_m2 |-> 2500]>>
              /\ fired \subseteq {"growth"})
               => /\ calc.result.flags
                       = <<"Unrealistic area expansion detected">>
                  /\ calc.result.credibility_impact = 25

\* C21 witness: the history 1000 -> 2500 has given the growth flag alone.
C21_Witness ==
  /\ calc.fn = "detectAnomalies"
  /\ calc.params.historical_data = <<[area_m2 |-> 1000], [area_m2 |-> 2500]>>
  /\ calc.result.flags = <<"Unrealistic area expansion detected">>
  /\ calc.result.credibility_impact = 25

\* C22: the theoretical-maximum rule fires exactly when the recorded
\* annual_co2_absorption is strictly greater than
\* factor * 1.5 * (area_m2 / 10000), and not at equality or below
\* (absorption and factor in hundredths).
C22_TheoreticalMaxStrict ==
  (/\ calc.fn = "detectAnomalies"
   /\ "annual_co2_absorption"
        \in DOMAIN calc.params.project.carbon_calculations)
    => LET project == calc.params.project
       IN ("theoretical_max" \in Fired(calc.result))
            = (project.carbon_calculations.annual_co2_absorption * 20000
                 > SEQUESTRATION_FACTORS[project.ecosystem_type] * 3
                     * project.area_m2)

\* C23: the minimum-area rule fires exactly when area_m2 < 1000; and with no
\* history, area_m2 = 500 and an absorption within the theoretical maximum
\* the report has that one flag, credibility_impact 10 and is_suspicious.
C23_MinAreaRule ==
  calc.fn = "detectAnomalies"
    => LET project == calc.params.project
           fired == Fired(calc.result)
       IN /\ ("min_area" \in fired) = (project.area_m2 < 1000)
          /\ (/\ calc.params.historical_data = <<>>
              /\ project.area_m2 = 500
              /\ "theoretical_max" \notin fired)
               => /\ calc.result.flags
                       = <<"Project area unusually small for ecosystem restoration">>
                  /\ calc.result.credibility_impact = 10
                  /\ calc.result.is_suspicious

\* C23 witness: a project of 500 m2 with no history and an absorption of 0
\* has got the minimum-area flag alone.
C23_Witness ==
  /\ calc.fn = "detectAnomalies"
  /\ calc.params.historical_data = <<>>
  /\ calc.params.project.area_m2 = 500
  /\ calc.params.project.carbon_calculations = [annual_co2_absorption |-> 0]
  /\ Len(calc.result.flags) = 1
  /\ calc.result.credibility_impact = 10

C25_SnapshotCarriesAnnualAbsorption ==
  calc.fn = "detectAnomalies" =>
    LET project == calc.params.project
    IN /\ "annual_co2_absorption" \in DOMAIN project.carbon_calculations
       /\ \E up \in [ForwardRounded -> BOOLEAN] :
            project.carbon_calculations.annual_co2_absorption =
              calculateCarbonSequestration(SubmitParams(project), up)
                .annual_absorption


\* C26: approved implies minted. A row whose status is 'approved' holds a
\* token id; the invocation that writes 'approved' has had mintNFT resolve
\* before, and the token id it stores is the one mintNFT returned; an
\* invocation whose mintNFT failed never calls db.updateProject and leaves the
\* registry as it was.
C26_ApprovedImpliesMinted ==
  /\ [](\A p \in DOMAIN db_projects :
          db_projects[p].status = "approved"
            => db_projects[p].verification_details.nft_token_id \in TokenIds)
  /\ [](\A s \in Verifiers :
          run[s].failed = "mint"
            => run[s].calls.update = 0 /\ ~run[s].wrote /\ pc[s] = "idle")
  /\ [][\A s \in Verifiers :
          (run[s].action = "approve" /\ ~run[s].wrote /\ run'[s].wrote)
            => /\ run[s].calls.mint = 1
               /\ run[s].nftData.nft_token_id \in TokenIds
               /\ db_projects'[run[s].projectId].status = "approved"
               /\ db_projects'[run[s].projectId]
                    .verification_details.nft_token_id
                    = run[s].nftData.nft_token_id]_vars
  /\ [][\A s \in Verifiers :
          (pc[s] = "mint" /\ run'[s].failed = "mint")
            => db_projects' = db_projects]_vars

\* C26 witness: a finished approval has left the row approved with the token
\* of its mint, while the other verifier's approval failed in mintNFT.
C26_Witness ==
  \E s, t \in Verifiers :
    /\ pc[s] = "idle" /\ run[s].action = "approve" /\ run[s].wrote
    /\ run[s].calls.mint = 1
    /\ \E p \in DOMAIN db_projects :
         /\ db_projects[p].status = "approved"
         /\ db_projects[p].verification_details.verifier_id = s
         /\ db_projects[p].verification_details.nft_token_id \in TokenIds
    /\ run[t].failed = "mint"


\* C27: no orphan mint. When an invocation in which mintNFT resolved
\* finishes, the status of its project in the registry is 'approved'.
C27_NoOrphanMint ==
  [][\A s \in Verifiers :
       (pc[s] \in {"update", "log"} /\ pc'[s] = "idle"
          /\ run[s].calls.mint = 1)
         => db_projects'[run[s].projectId].status = "approved"]_vars


\* C28: the busy flag is always released. Provided every collaborator call
\* settles, an invocation that set actionLoading eventually resets it, on
\* success and on every failure; when the flag is reset after a success the
\* selection and the comments are cleared, after a failure both are as they
\* were, and the selection is cleared by nothing else; a call without a
\* signed-in user calls no collaborator and changes no state.
C28_BusyFlagReleased ==
  /\ \A s \in SignedIn : actionLoading[s] ~> ~actionLoading[s]
  /\ [][\A s \in SignedIn :
          /\ (actionLoading[s] /\ ~actionLoading'[s])
               => IF run'[s].toast = "success"
                  THEN /\ selectedProject'[s] = NoProject
                       /\ verificationComments'[s] = ""
                  ELSE /\ run'[s].failed \in {"mint", "update", "log"}
                       /\ selectedProject'[s] = selectedProject[s]
                       /\ verificationComments'[s] = verificationComments[s]
          /\ (selectedProject[s] # NoProject
                 /\ selectedProject'[s] = NoProject)
               => pc[s] = "log" /\ run'[s].toast = "success"
          /\ (verificationComments[s] # ""
                 /\ verificationComments'[s] = "")
               => pc[s] = "log" /\ run'[s].toast = "success"]_vars
  /\ [][(runs' # runs /\ pc' = pc)
          => /\ UNCHANGED <<dbVars, projects, loading, loadsInFlight,
                            selectedProject, actionLoading,
                            verificationComments, loadRun>>
             /\ \A s \in Verifiers :
                  /\ run'[s].calls = run[s].calls
                  /\ run'[s].toast = run[s].toast]_vars
  /\ [](\A s \in SignedOut :
          run[s].calls = [mint |-> 0, update |-> 0, log |-> 0])

\* C28 witness: a call without user has been made, and the signed-in
\* verifier's invocation has ended in a failure of logEvent with the flag
\* released, the project still selected and the comments still in the box.
C28_Witness ==
  \E s \in SignedIn :
    /\ runs = MaxRuns
    /\ run[s].failed = "log" /\ pc[s] = "idle"
    /\ ~actionLoading[s]
    /\ selectedProject[s] # NoProject
    /\ verificationComments[s] = "ok"
    /\ \A t \in Verifiers : run[t].calls.mint + run[t].calls.update
                               + run[t].calls.log = 2
                               \/ t \in SignedOut


\* The results r were computed by the call that the mode and the inputs of
\* the component state ui lead to.
ComputedFrom(ui, computed_by) ==
  IF ui.mode = "standard"
  THEN /\ computed_by.fn = "calculateCarbonSequestration"
       /\ computed_by.params = StandardParams(ui)
  ELSE /\ computed_by.fn = "calculateRequiredArea"
       /\ computed_by.params = PolicyParams(ui)

\* the component state an eventData's mode and inputs describe
StateOf(eventData) ==
  [f \in DOMAIN InitialUi |->
     IF f = "mode" THEN eventData.calculator_mode
     ELSE IF f \in DOMAIN eventData.inputs THEN eventData.inputs[f]
     ELSE InitialUi[f]]

\* C29: every 'calculation' event handed to logEvent by handleProveIt
\* carries results that were computed from exactly the mode and the inputs it
\* carries; the results are never stale.
C29_LoggedResultsFresh ==
  \A i \in DOMAIN calc.eventData :
    ComputedFrom(StateOf(calc.eventData[i]), calc.eventData[i].computed_by)


====
